---- MODULE Spec2Model ----
(***************************************************************************)
(* Model of the JoystickInput command line tool                            *)
(* (src/JoystickInput/JoystickInput.cpp): the merged device enumeration,   *)
(* the argument handling of main and the two streaming loops.              *)
(*                                                                         *)
(* Strings whose characters matter (device product names, argv[1]) are     *)
(* sequences of one-character strings.                                     *)
(***************************************************************************)
EXTENDS Integers, Sequences, FiniteSets, TLC

VARIABLES
    xconn,          \* hardware: the XInput user indices that are connected
    diOk,           \* hardware: DirectInput8Create succeeds
    diDevs,         \* hardware: attached DirectInput game controllers, in
                    \* the order EnumDevices reports them
    argv,           \* argv[1..]: the command line arguments after argv[0]
    pc,             \* position of the main thread
    handler,        \* the console control handler is installed
    g_Running,      \* std::atomic_bool g_Running
    g_HiddenWnd,    \* g_HiddenWnd != nullptr
    selectedIndex,  \* main's selectedIndex
    devices,        \* main's catalog (auto devices = EnumerateDevices())
    listed,         \* the catalog PrintUsageAndList enumerated last
    hwDevices,      \* history: << the hardware enumerated into devices >>
    hwListed,       \* history: << the hardware enumerated into listed >>
    pending,        \* the value main returns after PrintUsageAndList
    out,            \* everything written to std::cout and std::cerr
    calls,          \* history: the streaming loops entered, with their key
    userIndex,      \* RunXInputReader's userIndex
    lastPacket,     \* RunXInputReader's lastPacket
    stPacket,       \* history: st.dwPacketNumber of the last successful read
    quiet,          \* history: the last successful read printed nothing
    diHeld,         \* RunDirectInputReader: the resources it holds
    loopRet,        \* history: what the streaming loop returned, or NoCode
    exitCode,       \* the process exit code, NoCode while running
    hr,             \* RunDirectInputReader's hr
    wait,           \* RunDirectInputReader's wait
    reacquires,     \* history: dev->Acquire() calls since the last loop test
    diAcquired,     \* history: the resources RunDirectInputReader obtained
    diReleased,     \* history: the releases RunDirectInputReader made, in order
    diFailed,       \* history: the set-up steps that failed, in order
    stopWaits,      \* history: sleeps and waits begun with g_Running false
    stopLines,      \* history: state lines printed with g_Running false
    g_gamepads,     \* browser build: std::vector<GamepadInfo> g_gamepads
    g_streaming,    \* browser build: bool g_streaming
    g_selectedGamepad, \* browser build: int g_selectedGamepad
    gpConnected,    \* browser: the gamepad slots that hold a connected gamepad
    gpTimestamp,    \* browser: the timestamp of each slot's current state
    sampled,        \* browser: what emscripten_sample_gamepad_data() returns
    gpChanges,      \* history: gamepads connected or disconnected so far
    lastCall,       \* history: the last exported call, its result and output
    lastFrame,      \* history: what the last UpdateGamepadState read
    prevFrame,      \* history: what the UpdateGamepadState before it read
    frames,         \* history: UpdateGamepadState calls that read, this stream
    announced       \* history: the GamepadInfo StartStreaming announced

vars == << xconn, diOk, diDevs, argv, pc, handler, g_Running, g_HiddenWnd,
           selectedIndex, devices, listed, hwDevices, hwListed, pending,
           out, calls, userIndex, lastPacket, stPacket, quiet, diHeld,
           loopRet, exitCode, hr, wait, reacquires, diAcquired, diReleased,
           diFailed, stopWaits, stopLines, g_gamepads, g_streaming, g_selectedGamepad,
           gpConnected, gpTimestamp, sampled, gpChanges, lastCall, lastFrame,
           prevFrame, frames, announced >>

hwVars == << xconn, diOk, diDevs >>

\* the history of RunDirectInputReader's resources
diHist == << diAcquired, diReleased, diFailed >>
\* the state of the browser build
webVars == << g_gamepads, g_streaming, g_selectedGamepad, gpConnected,
             gpTimestamp, sampled, gpChanges, lastCall, lastFrame, prevFrame,
             frames, announced >>
\* the state of the native program
cliVars == << xconn, diOk, diDevs, argv, handler, g_Running, g_HiddenWnd,
             selectedIndex, devices, listed, hwDevices, hwListed, pending,
             out, calls, userIndex, lastPacket, stPacket, quiet, diHeld,
             loopRet, exitCode, hr, wait, reacquires, diAcquired, diReleased,
             diFailed, stopWaits, stopLines >>

----------------------------------------------------------------------------
(* Bounds of the model *)

\* longest list of attached DirectInput devices
MaxDI == 2
\* most fragments concatenated into a generated product name
MaxFrags == 2
\* largest dwPacketNumber XInputGetState reports
MaxPacket == 1
\* most state lines a streaming loop prints before the model stops it
MaxLines == 2
\* most dev->Acquire() calls counted in one run of the drain loop
MaxReacquire == 2
\* the gamepad slots of the browser are 0 .. MaxPads-1
MaxPads == 3
\* largest timestamp of a gamepad state
MaxStamp == 1
\* most UpdateGamepadState calls counted in one stream
MaxFrames == 2
\* most gamepads connected or disconnected after the page was loaded
MaxChanges == 1

(* Program constants *)

\* XInput user indices are 0 .. XUserMaxCount-1
XUserMaxCount == 4
Slots == 0 .. (XUserMaxCount - 1)

\* the gamepad slots of the browser
PadSlots == 0 .. (MaxPads - 1)

npos == -1
\* "no exit code yet": the process, or the loop, has not returned
NoCode == 0 - 1
NoIndex == -1
GuidNull == 0

----------------------------------------------------------------------------
(* Characters *)

UpperCase == << "A","B","C","D","E","F","G","H","I","J","K","L","M",
                "N","O","P","Q","R","S","T","U","V","W","X","Y","Z" >>
LowerCase == << "a","b","c","d","e","f","g","h","i","j","k","l","m",
                "n","o","p","q","r","s","t","u","v","w","x","y","z" >>

\* ::towlower on one wide character
towlower(c) ==
    IF \E i \in 1..Len(UpperCase) : UpperCase[i] = c
    THEN LowerCase[CHOOSE i \in 1..Len(UpperCase) : UpperCase[i] = c]
    ELSE c

\* std::transform(lname.begin(), lname.end(), lname.begin(), ::towlower)
TransformLower(s) == [i \in 1..Len(s) |-> towlower(s[i])]

\* std::wstring::find(pat) from position pos (1-based here); npos if absent
RECURSIVE FindFrom(_, _, _)
FindFrom(hay, pat, pos) ==
    IF pos + Len(pat) - 1 > Len(hay) THEN npos
    ELSE IF SubSeq(hay, pos, pos + Len(pat) - 1) = pat THEN pos
    ELSE FindFrom(hay, pat, pos + 1)

find(hay, pat) == FindFrom(hay, pat, 1)

L_xinput == << "x","i","n","p","u","t" >>
L_xbox   == << "(","x","b","o","x" >>
L_ig     == << "i","g","_" >>

----------------------------------------------------------------------------
(* Device enumeration *)

\* DeviceInfo; index is left unset by the constructor (NoIndex here) until
\* EnumerateDevices assigns it
DeviceInfo(kind, name, user, guid) ==
    [index |-> NoIndex, kind |-> kind, name |-> name,
     xinputUser |-> user, diGuid |-> guid]

\* L"XInput Controller " + std::to_wstring(i)
XInputName(i) == << "XInput Controller ", ToString(i) >>

\* the result of XInputGetState(userIdx, &state) on the hardware xc
XInputGetState(xc, userIdx) ==
    IF userIdx \in xc THEN "ERROR_SUCCESS" ELSE "ERROR_DEVICE_NOT_CONNECTED"

\* IsXInputConnected(userIdx)
IsXInputConnected(xc, userIdx) == XInputGetState(xc, userIdx) = "ERROR_SUCCESS"

\* a faulty variant of IsLikelyXInputDuplicate: the name is searched as it is,
\* without being lower-cased first
IsLikelyXInputDuplicate_NoLower(inst) ==
    \/ find(inst.name, L_xinput) # npos
    \/ find(inst.name, L_xbox) # npos
    \/ find(inst.name, L_ig) # npos

\* IsLikelyXInputDuplicate(inst): tszProductName is an array member, never
\* null, so name is the product name itself
IsLikelyXInputDuplicate(inst) ==
    LET name  == inst.name
        lname == TransformLower(name)
    IN  IF find(lname, L_xinput) # npos THEN TRUE
        ELSE IF find(lname, L_xbox) # npos THEN TRUE
        ELSE IF find(lname, L_ig) # npos THEN TRUE
        ELSE FALSE

\* EnumDIEnumDevicesCallback(pdidInstance, ctx): ctx->out after the call
EnumDIEnumDevicesCallback(inst, outList) ==
    IF IsLikelyXInputDuplicate(inst)
    THEN outList
    ELSE Append(outList,
                DeviceInfo("DirectInput", inst.name, 0, inst.guid))

\* di->EnumDevices(DI8DEVCLASS_GAMECTRL, EnumDIEnumDevicesCallback, &ctx,
\* DIEDFL_ATTACHEDONLY): the callback runs once per attached device, in the
\* provider's order, and always answers DIENUM_CONTINUE
RECURSIVE EnumDevices(_, _, _)
EnumDevices(dl, k, outList) ==
    IF k > Len(dl) THEN outList
    ELSE EnumDevices(dl, k + 1, EnumDIEnumDevicesCallback(dl[k], outList))

\* step 1 of EnumerateDevices: for (DWORD i = 0; i < 4; ++i)
RECURSIVE XInputScan(_, _, _)
XInputScan(xc, i, outList) ==
    IF i >= XUserMaxCount THEN outList
    ELSE XInputScan(xc, i + 1,
            IF IsXInputConnected(xc, i)
            THEN Append(outList, DeviceInfo("XInput", XInputName(i), i, GuidNull))
            ELSE outList)

\* a faulty variant of AssignIndices: the indices start at 1
AssignIndices_OneBased(list) ==
    [i \in 1..Len(list) |-> [list[i] EXCEPT !.index = i]]

\* the final loop of EnumerateDevices: devices[i].index = i
AssignIndices(list) ==
    [i \in 1..Len(list) |-> [list[i] EXCEPT !.index = i - 1]]

\* faulty variants of EnumerateDevices
\* the DirectInput devices are appended before the XInput users
EnumerateDevices_DIFirst(xc, ok, dl) ==
    LET step2 == IF ok THEN EnumDevices(dl, 1, << >>) ELSE << >>
        step1 == XInputScan(xc, 0, step2)
    IN  AssignIndices(step1)
\* a failed DirectInput8Create discards what was collected so far
EnumerateDevices_FailClears(xc, ok, dl) ==
    LET step1 == XInputScan(xc, 0, << >>)
        step2 == IF ok THEN EnumDevices(dl, 1, step1) ELSE << >>
    IN  AssignIndices(step2)

\* EnumerateDevices() against the hardware (xc, ok, dl)
EnumerateDevices(xc, ok, dl) ==
    LET step1 == XInputScan(xc, 0, << >>)
        step2 == IF ok THEN EnumDevices(dl, 1, step1) ELSE step1
    IN  AssignIndices(step2)

\* the hardware as one value
Hardware == [xconn |-> xconn, diOk |-> diOk, diDevs |-> diDevs]

----------------------------------------------------------------------------
(* std::stoi *)

DigitChars == << "0","1","2","3","4","5","6","7","8","9" >>
IsDigit(c) == \E i \in 1..Len(DigitChars) : DigitChars[i] = c
DigitVal(c) == (CHOOSE i \in 1..Len(DigitChars) : DigitChars[i] = c) - 1
\* isspace in the "C" locale
IsSpace(c) == c \in { " ", "\t", "\n", "\r", "\f" }

RECURSIVE SkipSpace(_, _)
SkipSpace(s, i) ==
    IF i <= Len(s) /\ IsSpace(s[i]) THEN SkipSpace(s, i + 1) ELSE i

\* the digit run of strtol(.., 10): the position after the last digit, the
\* signed value accumulated, and whether it left the range of int (long is
\* 32 bits wide on the target); the digits are consumed to the end of the
\* run also after an overflow
RECURSIVE DigitRun(_, _, _, _, _)
DigitRun(s, i, acc, ovf, neg) ==
    IF i > Len(s) \/ ~IsDigit(s[i]) THEN [pos |-> i, acc |-> acc, ovf |-> ovf]
    ELSE LET d == DigitVal(s[i])
             over == IF neg
                     THEN acc < -214748364 \/ (acc = -214748364 /\ d > 8)
                     ELSE acc > 214748364 \/ (acc = 214748364 /\ d > 7)
         IN  IF ovf \/ over
             THEN DigitRun(s, i + 1, acc, TRUE, neg)
             ELSE DigitRun(s, i + 1,
                           IF neg THEN acc * 10 - d ELSE acc * 10 + d,
                           FALSE, neg)

\* a faulty variant of stoi: a sign is not accepted
stoi_NoSign(s) ==
    LET i0 == SkipSpace(s, 1)
        r  == DigitRun(s, i0, 0, FALSE, FALSE)
    IN  IF r.pos = i0 THEN [err |-> "invalid_argument", val |-> 0]
        ELSE IF r.ovf THEN [err |-> "out_of_range", val |-> 0]
        ELSE [err |-> "none", val |-> r.acc]

\* std::stoi(str): the value of the longest prefix that is an integer, after
\* leading white space; std::invalid_argument when there is no digit,
\* std::out_of_range when the value does not fit an int.  What follows the
\* digits is ignored (the pos argument is not passed, so nothing checks it).
stoi(s) ==
    LET i0  == SkipSpace(s, 1)
        neg == i0 <= Len(s) /\ s[i0] = "-"
        i1  == IF i0 <= Len(s) /\ s[i0] \in { "+", "-" } THEN i0 + 1 ELSE i0
        r   == DigitRun(s, i1, 0, FALSE, neg)
    IN  IF r.pos = i1 THEN [err |-> "invalid_argument", val |-> 0]
        ELSE IF r.ovf THEN [err |-> "out_of_range", val |-> 0]
        ELSE [err |-> "none", val |-> r.acc]

----------------------------------------------------------------------------
(* Output *)

\* what a listing line shows of a device
NoShown == [index |-> NoIndex, label |-> "", name |-> << >>, user |-> NoIndex]

\* one line written to std::cout ("cout") or std::cerr ("cerr")
Line(ch, text) == [ch |-> ch, text |-> text, dev |-> NoShown, n |-> 0]

\* (d.kind == DeviceKind::XInput ? "XInput   " : "DirectInp")
KindLabel(d) == IF d.kind = "XInput" THEN "XInput   " ELSE "DirectInp"

\* "  [index] label  name (user=u)": the user only for an XInput device
DeviceLine(d) ==
    [ch |-> "cout", text |-> "device",
     dev |-> [index |-> d.index, label |-> KindLabel(d), name |-> d.name,
              user |-> IF d.kind = "XInput" THEN d.xinputUser ELSE NoIndex],
     n |-> 0]

\* "Selected [index] label  name"
SelectedLine(d) ==
    [ch |-> "cout", text |-> "Selected",
     dev |-> [index |-> d.index, label |-> KindLabel(d), name |-> d.name,
              user |-> NoIndex],
     n |-> 0]

\* PrintXInputState(st): one line; n stands for the state read, identified
\* by its packet number
XInputStateLine(pkt) == [Line("cout", "XInputState") EXCEPT !.n = pkt]
\* PrintDIState(js): one line
DIStateLine == Line("cout", "DIState")

UsageLines ==
    << Line("cout", "Usage: JoystickInput <deviceIndex>"),
       Line("cout", "No argument: lists available devices with their integer index.") >>
NoneDetected == Line("cout", "No game controllers detected.")
AvailableDevices == Line("cout", "Available devices:")
InvalidArgument == Line("cerr", "Invalid argument. Must be an integer device index.")
OutOfRange == Line("cerr", "Device index out of range.")
ControllerDisconnected == Line("cout", "Controller disconnected.")
ReadingXInput(u) == [Line("cout", "Reading XInput controller") EXCEPT !.n = u]
ReadingDirectInput == Line("cout", "Reading DirectInput device")
DeviceDisconnected == Line("cout", "Device disconnected or error.")
WaitFailed == Line("cerr", "WaitForSingleObject failed.")

\* a faulty variant of UsageAndList: no message for an empty catalog
UsageAndList_NoEmptyCase(cat) ==
    UsageLines \o << AvailableDevices >> \o [i \in 1..Len(cat) |-> DeviceLine(cat[i])]

\* what PrintUsageAndList writes when EnumerateDevices returns cat
UsageAndList(cat) ==
    UsageLines \o
    (IF cat = << >>
     THEN << NoneDetected >>
     ELSE << AvailableDevices >> \o [i \in 1..Len(cat) |-> DeviceLine(cat[i])])

\* the state lines in a piece of output
IsStateLine(l) == l.text \in { "XInputState", "DIState" }
StateLines(o) == SelectSeq(o, IsStateLine)

----------------------------------------------------------------------------
(* The inputs: hardware and command lines *)

N_Logitech == << "L","o","g","i","t","e","c","h"," ","E","x","t","r","e","m","e"," ","3","D"," ","P","r","o" >>
N_Xbox360  == << "X","b","o","x"," ","3","6","0"," ","C","o","n","t","r","o","l","l","e","r"," ","(","X","I","n","p","u","t"," ","S","T","A","N","D","A","R","D"," ","G","A","M","E","P","A","D",")" >>
N_XboxOne  == << "C","o","n","t","r","o","l","l","e","r"," ","(","X","B","O","X"," ","O","n","e"," ","F","o","r"," ","W","i","n","d","o","w","s",")" >>
N_HidIG    == << "H","I","D","-","c","o","m","p","l","i","a","n","t"," ","g","a","m","e"," ","c","o","n","t","r","o","l","l","e","r"," ","I","G","_","0","0" >>

\* pieces of product names: the three patterns in the case DirectInput
\* reports them, and pieces that only together, or never, make a pattern
Fragments ==
    { << "X","I","n","p","u","t" >>, << "(","X","B","O","X" >>,
      << "I","G","_" >>, << "x","i","n","p","u" >>, << "t" >>,
      << "(","x","b","o" >>, << "x" >>, << "i","g" >>, << "_" >> }

RECURSIVE GeneratedNames(_)
GeneratedNames(k) ==
    IF k = 0 THEN { << >> }
    ELSE LET shorter == GeneratedNames(k - 1)
         IN  shorter \cup { n \o f : n \in shorter, f \in Fragments }

\* a DIDEVICEINSTANCEW: guidInstance and tszProductName
Instance(g, n) == [guid |-> g, name |-> n]

\* the DirectInput devices a machine may have attached together
DevicePool ==
    { Instance(1, N_Logitech), Instance(2, N_Xbox360),
      Instance(3, << >>), Instance(4, N_HidIG) }

\* the lists of at most k distinct devices of pool
InjectiveLists(pool, k) ==
    UNION { { l \in [1..n -> pool] : \A i, j \in 1..n : l[i] = l[j] => i = j }
            : n \in 0..k }

\* one device with any generated name, or a list of pool devices
EnumHardware ==
    { << Instance(1, n) >> :
        n \in GeneratedNames(MaxFrags) \cup { N_XboxOne } }
    \cup InjectiveLists(DevicePool, MaxDI)

\* the hardware the whole program is run against
CliPool == { Instance(1, N_Logitech), Instance(2, N_Xbox360), Instance(3, << >>) }
CliHardware == InjectiveLists(CliPool, MaxDI)
CliSlotSets == { {}, { 2 }, { 1, 3 }, Slots }

\* the gamepad slots connected when the page is loaded: none, one above an
\* empty slot, two around an empty slot, all
WebSlotSets == { {}, { 1 }, { 0, 2 }, PadSlots }

\* argv[1]: indices in and out of range, signs, white space, text before
\* and after digits, no digit at all, and values at and beyond the int range
Arguments ==
    { << "0" >>, << "1" >>, << "2" >>, << "5" >>, << "7" >>,
      << "-","1" >>, << "+","7" >>, << " ","7" >>,
      << "a","b","c" >>, << >>, << "-" >>,
      << "1","a" >>, << "a","1" >>,
      << "2","1","4","7","4","8","3","6","4","7" >>,
      << "2","1","4","7","4","8","3","6","4","8" >>,
      << "-","2","1","4","7","4","8","3","6","4","9" >>,
      << "9","9","9","9","9","9","9","9","9","9","9" >> }

\* the command lines: no argument, one argument, or a second one as well
CommandLines ==
    { << >> } \cup { << a >> : a \in Arguments }
    \cup { << << "0" >>, << "x" >> >>, << << "x" >>, << "0" >> >> }

----------------------------------------------------------------------------
(* Initial states *)

ProgramInit ==
    /\ handler = FALSE
    /\ g_Running = TRUE
    /\ g_HiddenWnd = FALSE
    /\ selectedIndex = NoIndex
    /\ devices = << >>
    /\ listed = << >>
    /\ hwDevices = << >>
    /\ hwListed = << >>
    /\ pending = NoCode
    /\ out = << >>
    /\ calls = << >>
    /\ userIndex = 0
    /\ lastPacket = 0
    /\ stPacket = 0
    /\ quiet = FALSE
    /\ diHeld = {}
    /\ loopRet = NoCode
    /\ exitCode = NoCode
    /\ hr = "none"
    /\ wait = "none"
    /\ reacquires = 0
    /\ diAcquired = {}
    /\ diReleased = << >>
    /\ diFailed = << >>
    /\ stopWaits = 0
    /\ stopLines = 0

\* the browser build's globals as they are constructed
WebGlobalsInit ==
    /\ g_gamepads = << >>
    /\ g_streaming = FALSE
    /\ g_selectedGamepad = -1
    /\ lastCall = [fn |-> "none", arg |-> NoIndex, ret |-> NoIndex, printed |-> << >>]
    /\ lastFrame = [slot |-> NoIndex, connected |-> FALSE, valid |-> FALSE, timestamp |-> 0]
    /\ prevFrame = [slot |-> NoIndex, connected |-> FALSE, valid |-> FALSE, timestamp |-> 0]
    /\ frames = 0
    /\ announced = [index |-> NoIndex, id |-> << >>]

\* the native program runs without a browser
NoBrowser ==
    /\ WebGlobalsInit
    /\ gpConnected = {}
    /\ gpTimestamp = [s \in PadSlots |-> 0]
    /\ sampled = 0
    /\ gpChanges = 0

\* the process starts: any hardware, any command line
Init ==
    /\ xconn \in CliSlotSets
    /\ diOk \in BOOLEAN
    /\ diDevs \in CliHardware
    /\ argv \in CommandLines
    /\ pc = "main"
    /\ ProgramInit
    /\ NoBrowser

\* the process starts with an index on the command line
InitLive ==
    /\ xconn \in { {}, { 2 } }
    /\ diOk \in BOOLEAN
    /\ diDevs \in InjectiveLists(CliPool, 1)
    /\ argv \in { << << "0" >> >>, << << "1" >> >> }
    /\ pc = "main"
    /\ ProgramInit
    /\ NoBrowser

\* the browser build is loaded: any gamepads connected.  The code takes
\* the value of emscripten_sample_gamepad_data() for the number of gamepad
\* slots; html5.h declares it as an EMSCRIPTEN_RESULT, which is 0 on success
InitWeb ==
    /\ xconn = {}
    /\ diOk = FALSE
    /\ diDevs = << >>
    /\ argv = << >>
    /\ pc = "web_main"
    /\ ProgramInit
    /\ WebGlobalsInit
    /\ gpConnected \in WebSlotSets
    /\ gpTimestamp = [s \in PadSlots |-> 0]
    /\ sampled \in { 0, MaxPads }
    /\ gpChanges = 0

\* EnumerateDevices alone, against any hardware
InitEnum ==
    /\ xconn \in SUBSET Slots
    /\ diOk \in BOOLEAN
    /\ diDevs \in EnumHardware
    /\ argv = << >>
    /\ pc = "call1"
    /\ ProgramInit
    /\ NoBrowser

----------------------------------------------------------------------------
(* The environment *)

\* ConsoleCtrlHandler(ctrlType), run by the console on its own thread
CtrlTypes == { "CTRL_C_EVENT", "CTRL_BREAK_EVENT", "CTRL_CLOSE_EVENT",
               "CTRL_LOGOFF_EVENT", "CTRL_SHUTDOWN_EVENT" }

\* a faulty variant of StoredOnCtrl: the flag is toggled
StoredOnCtrl_Toggle(running) == ~running
\* what ConsoleCtrlHandler stores for a handled event: g_Running.store(false)
StoredOnCtrl(running) == FALSE

ConsoleCtrlHandler(ctrlType) ==
    /\ handler
    /\ pc # "done"
    /\ g_Running' = IF ctrlType \in { "CTRL_C_EVENT", "CTRL_BREAK_EVENT",
                                      "CTRL_CLOSE_EVENT" }
                    THEN StoredOnCtrl(g_Running) ELSE g_Running
    /\ UNCHANGED << xconn, diOk, diDevs, argv, pc, handler, g_HiddenWnd,
                    selectedIndex, devices, listed, hwDevices, hwListed,
                    pending, out, calls, userIndex, lastPacket, stPacket, quiet, diHeld,
                    loopRet, exitCode >>
    /\ UNCHANGED << hr, wait, reacquires, diHist, stopWaits, stopLines, webVars >>

InXInputLoop == pc \in { "xi_test", "xi_read", "xi_sleep" }

\* the hardware has not changed since EnumerateDevices filled devices
SameAsEnumerated == hwDevices = << Hardware >>

\* A controller is plugged into, or pulled from, XInput slot i.  Only the
\* changes the program can still observe are taken: one change between two
\* enumerations, and the streamed slot while RunXInputReader polls it (a
\* change before the first enumeration is another initial state).
HardwareChange(i) ==
    /\ \/ pc \in { "list", "call2" } /\ SameAsEnumerated
       \/ InXInputLoop /\ i = userIndex
    /\ xconn' = IF i \in xconn THEN xconn \ { i } ELSE xconn \cup { i }
    /\ UNCHANGED << diOk, diDevs, argv, pc, handler, g_Running, g_HiddenWnd,
                    selectedIndex, devices, listed, hwDevices, hwListed,
                    pending, out, calls, userIndex, lastPacket, stPacket, quiet, diHeld,
                    loopRet, exitCode >>
    /\ UNCHANGED << hr, wait, reacquires, diHist, stopWaits, stopLines, webVars >>

\* DirectInput becomes available or unavailable, under the same restriction
ProviderChange ==
    /\ pc \in { "list", "call2", "di_setup" } /\ SameAsEnumerated
    /\ diOk' = ~diOk
    /\ UNCHANGED << xconn, diDevs, argv, pc, handler, g_Running, g_HiddenWnd,
                    selectedIndex, devices, listed, hwDevices, hwListed,
                    pending, out, calls, userIndex, lastPacket, stPacket, quiet, diHeld,
                    loopRet, exitCode >>
    /\ UNCHANGED << hr, wait, reacquires, diHist, stopWaits, stopLines, webVars >>

----------------------------------------------------------------------------
(* main *)

\* a faulty variant of SelectedEntry: the first entry whatever the index
SelectedEntry_First(devs, idx) == devs[1]

\* devices[selectedIndex]
SelectedEntry(devs, idx) == devs[idx + 1]

\* main up to the call of EnumerateDevices: SetConsoleCtrlHandler,
\* CreateHiddenWindow (w: it succeeded), the argc test and std::stoi
MainArgs ==
    /\ pc = "main"
    /\ handler' = TRUE
    /\ \E w \in BOOLEAN : g_HiddenWnd' = w
    /\ IF Len(argv) < 1
       THEN /\ pc' = "list"
            /\ pending' = 0
            /\ UNCHANGED << selectedIndex, out >>
       ELSE LET r == stoi(argv[1])
            IN  IF r.err # "none"
                THEN /\ out' = Append(out, InvalidArgument)
                     /\ pc' = "list"
                     /\ pending' = 1
                     /\ UNCHANGED selectedIndex
                ELSE /\ selectedIndex' = r.val
                     /\ pc' = "enum"
                     /\ UNCHANGED << out, pending >>
    /\ UNCHANGED << xconn, diOk, diDevs, argv, g_Running, devices, listed,
                    hwDevices, hwListed, calls, userIndex, lastPacket, stPacket, quiet,
                    diHeld, loopRet, exitCode >>
    /\ UNCHANGED << hr, wait, reacquires, diHist, stopWaits, stopLines, webVars >>

\* main from EnumerateDevices to the entry of the streaming loop: the range
\* test, the "Selected" line, and the first statements of RunXInputReader or
\* RunDirectInputReader
MainSelect ==
    /\ pc = "enum"
    /\ LET devs == EnumerateDevices(xconn, diOk, diDevs)
       IN  /\ devices' = devs
           /\ hwDevices' = << Hardware >>
           /\ IF selectedIndex < 0 \/ selectedIndex >= Len(devs)
              THEN /\ out' = Append(out, OutOfRange)
                   /\ pc' = "list"
                   /\ pending' = 1
                   /\ UNCHANGED << calls, userIndex, lastPacket, stPacket, quiet >>
              ELSE LET sel == SelectedEntry(devs, selectedIndex)
                   IN  IF sel.kind = "XInput"
                       THEN /\ out' = out \o << SelectedLine(sel),
                                                ReadingXInput(sel.xinputUser) >>
                            /\ calls' = Append(calls,
                                    [mode |-> "XInput", user |-> sel.xinputUser,
                                     guid |-> GuidNull])
                            /\ userIndex' = sel.xinputUser
                            /\ lastPacket' = 0
                            /\ pc' = "xi_test"
                            /\ UNCHANGED << pending, stPacket, quiet >>
                       ELSE /\ out' = out \o << SelectedLine(sel),
                                                ReadingDirectInput >>
                            /\ calls' = Append(calls,
                                    [mode |-> "DirectInput", user |-> NoIndex,
                                     guid |-> sel.diGuid])
                            /\ pc' = "di_setup"
                            /\ UNCHANGED << pending, userIndex, lastPacket, stPacket, quiet >>
    /\ UNCHANGED << xconn, diOk, diDevs, argv, handler, g_Running,
                    g_HiddenWnd, selectedIndex, listed, hwListed, diHeld,
                    loopRet, exitCode >>
    /\ UNCHANGED << hr, wait, reacquires, diHist, stopWaits, stopLines, webVars >>

\* PrintUsageAndList(), and main's return after it
PrintUsageAndList ==
    /\ pc = "list"
    /\ LET devs == EnumerateDevices(xconn, diOk, diDevs)
       IN  /\ listed' = devs
           /\ hwListed' = << Hardware >>
           /\ out' = out \o UsageAndList(devs)
    /\ exitCode' = pending
    /\ pc' = "done"
    /\ UNCHANGED << xconn, diOk, diDevs, argv, handler, g_Running,
                    g_HiddenWnd, selectedIndex, devices, hwDevices, pending,
                    calls, userIndex, lastPacket, stPacket, quiet, diHeld, loopRet >>
    /\ UNCHANGED << hr, wait, reacquires, diHist, stopWaits, stopLines, webVars >>

----------------------------------------------------------------------------
(* RunXInputReader *)

\* one more sleep or wait begun after g_Running became false (counted to 2)
StopWait(n) == IF g_Running \/ n >= 2 THEN n ELSE n + 1

\* the state lines printed with g_Running false, after a step that took the
\* output from before to after
LinesAfterStop(n, before, after) ==
    IF g_Running
    THEN n
    ELSE n + (Len(StateLines(after)) - Len(StateLines(before)))

\* a faulty variant of LoopTest: the loop never sees the stop
LoopTest_Always(running) == TRUE
\* while (g_Running.load())
LoopTest(running) == running

\* the model stops a loop that has printed MaxLines state lines
MayPrint == Len(StateLines(out)) < MaxLines

\* while (g_Running.load()), and return 0 after the loop
XInputTest ==
    /\ pc = "xi_test"
    /\ IF LoopTest(g_Running)
       THEN /\ pc' = "xi_read"
            /\ UNCHANGED << loopRet, exitCode >>
       ELSE /\ loopRet' = 0
            /\ exitCode' = 0
            /\ pc' = "done"
    /\ UNCHANGED << xconn, diOk, diDevs, argv, handler, g_Running,
                    g_HiddenWnd, selectedIndex, devices, listed, hwDevices,
                    hwListed, pending, out, calls, userIndex, lastPacket, stPacket, quiet,
                    diHeld >>
    /\ UNCHANGED << hr, wait, reacquires, diHist, stopWaits, stopLines, webVars >>

\* a faulty variant of PacketChanged: every read counts as a change
PacketChanged_Always(packet, last) == TRUE

\* st.dwPacketNumber != lastPacket
PacketChanged(packet, last) == packet # last

\* a faulty variant of XInputReadFailed: no result is taken as a failure
XInputReadFailed_Never(res) == FALSE

\* res != ERROR_SUCCESS
XInputReadFailed(res) == res # "ERROR_SUCCESS"

\* XInputGetState(userIndex, &st) and what follows it in the loop body;
\* packet is st.dwPacketNumber of a successful read
XInputRead ==
    /\ pc = "xi_read"
    /\ IF XInputReadFailed(XInputGetState(xconn, userIndex))
       THEN /\ out' = Append(out, ControllerDisconnected)
            /\ loopRet' = 1
            /\ exitCode' = 1
            /\ pc' = "done"
            /\ UNCHANGED << lastPacket, stPacket, quiet >>
       ELSE \E packet \in 0..MaxPacket :
            /\ stPacket' = packet
            /\ IF PacketChanged(packet, lastPacket)
               THEN /\ MayPrint
                    /\ lastPacket' = packet
                    /\ out' = Append(out, XInputStateLine(packet))
                    /\ quiet' = FALSE
               ELSE /\ quiet' = TRUE
                    /\ UNCHANGED << lastPacket, out >>
            /\ pc' = "xi_sleep"
            /\ UNCHANGED << loopRet, exitCode >>
    /\ UNCHANGED << xconn, diOk, diDevs, argv, handler, g_Running,
                    g_HiddenWnd, selectedIndex, devices, listed, hwDevices,
                    hwListed, pending, calls, userIndex, diHeld >>
    /\ stopLines' = LinesAfterStop(stopLines, out, out')
    /\ UNCHANGED << hr, wait, reacquires, diHist, stopWaits, webVars >>

\* std::this_thread::sleep_for(std::chrono::milliseconds(2))
XInputSleep ==
    /\ pc = "xi_sleep"
    /\ pc' = "xi_test"
    /\ stopWaits' = StopWait(stopWaits)
    /\ UNCHANGED << xconn, diOk, diDevs, argv, handler, g_Running,
                    g_HiddenWnd, selectedIndex, devices, listed, hwDevices,
                    hwListed, pending, out, calls, userIndex, lastPacket, stPacket, quiet,
                    diHeld, loopRet, exitCode >>
    /\ UNCHANGED << hr, wait, reacquires, diHist, stopLines, webVars >>

----------------------------------------------------------------------------
(* RunDirectInputReader *)

AllHeld == { "di", "dev", "hEvent", "notification", "acquired" }

\* the elements of a sequence
Range(seq) == { seq[i] : i \in 1..Len(seq) }

\* faulty variants of SetupSteps
\* a failed SetEventNotification leaves the event handle open
SetupSteps_LeakEvent ==
    << [step |-> "DirectInput8Create", code |-> 2, msg |-> "DirectInput8Create failed.",
        holds |-> {}, releases |-> << >>],
       [step |-> "CreateDevice", code |-> 3, msg |-> "CreateDevice failed.",
        holds |-> { "di" }, releases |-> << "di" >>],
       [step |-> "CreateHiddenWindow", code |-> 4,
        msg |-> "Failed to create hidden window for DirectInput.",
        holds |-> { "di", "dev" }, releases |-> << "dev", "di" >>],
       [step |-> "SetDataFormat", code |-> 5, msg |-> "SetDataFormat failed.",
        holds |-> { "di", "dev" }, releases |-> << "dev", "di" >>],
       [step |-> "SetCooperativeLevel", code |-> 6, msg |-> "SetCooperativeLevel failed.",
        holds |-> { "di", "dev" }, releases |-> << "dev", "di" >>],
       [step |-> "CreateEvent", code |-> 7, msg |-> "CreateEvent failed.",
        holds |-> { "di", "dev" }, releases |-> << "dev", "di" >>],
       [step |-> "SetEventNotification", code |-> 8, msg |-> "SetEventNotification failed.",
        holds |-> { "di", "dev", "hEvent" }, releases |-> << "dev", "di" >>],
       [step |-> "Acquire", code |-> 9, msg |-> "Acquire failed.",
        holds |-> { "di", "dev", "hEvent", "notification" },
        releases |-> << "notification", "hEvent", "dev", "di" >>] >>

\* the steps of the set-up that can fail, in order, each with the value the
\* function returns, what it holds when the step fails and what the failure
\* branch releases, in the order of its calls
SetupSteps ==
    << [step |-> "DirectInput8Create", code |-> 2, msg |-> "DirectInput8Create failed.",
        holds |-> {}, releases |-> << >>],
       [step |-> "CreateDevice", code |-> 3, msg |-> "CreateDevice failed.",
        holds |-> { "di" }, releases |-> << "di" >>],
       [step |-> "CreateHiddenWindow", code |-> 4,
        msg |-> "Failed to create hidden window for DirectInput.",
        holds |-> { "di", "dev" }, releases |-> << "dev", "di" >>],
       [step |-> "SetDataFormat", code |-> 5, msg |-> "SetDataFormat failed.",
        holds |-> { "di", "dev" }, releases |-> << "dev", "di" >>],
       [step |-> "SetCooperativeLevel", code |-> 6, msg |-> "SetCooperativeLevel failed.",
        holds |-> { "di", "dev" }, releases |-> << "dev", "di" >>],
       [step |-> "CreateEvent", code |-> 7, msg |-> "CreateEvent failed.",
        holds |-> { "di", "dev" }, releases |-> << "dev", "di" >>],
       [step |-> "SetEventNotification", code |-> 8, msg |-> "SetEventNotification failed.",
        holds |-> { "di", "dev", "hEvent" }, releases |-> << "hEvent", "dev", "di" >>],
       [step |-> "Acquire", code |-> 9, msg |-> "Acquire failed.",
        holds |-> { "di", "dev", "hEvent", "notification" },
        releases |-> << "notification", "hEvent", "dev", "di" >>] >>

\* whether step k of the set-up can fail, and whether it can succeed, here
CanFail(k) ==
    CASE SetupSteps[k].step = "DirectInput8Create" -> ~diOk
      [] SetupSteps[k].step = "CreateHiddenWindow" -> ~g_HiddenWnd
      [] OTHER -> TRUE
CanPass(k) ==
    CASE SetupSteps[k].step = "DirectInput8Create" -> diOk
      [] OTHER -> TRUE

\* dev->SetProperty(DIPROP_BUFFERSIZE, ..) is called after SetCooperativeLevel
\* succeeded, and its result is not looked at
SetPropertyCalled(k) ==
    k = 0 \/ \E j \in 1..(k - 1) : SetupSteps[j].step = "SetCooperativeLevel"

\* the set-up of RunDirectInputReader, from DirectInput8Create to Acquire:
\* it fails at step k (0: at none) after steps 1..k-1 succeeded; propOk is
\* what SetProperty answered
DISetup ==
    /\ pc = "di_setup"
    /\ \E k \in 0..Len(SetupSteps), propOk \in BOOLEAN :
        /\ \A j \in 1..Len(SetupSteps) : (k = 0 \/ j < k) => CanPass(j)
        /\ k > 0 => CanFail(k)
        /\ ~SetPropertyCalled(k) => propOk
        /\ IF k = 0
           THEN /\ diHeld' = AllHeld
                /\ diAcquired' = AllHeld
                /\ diReleased' = << >>
                /\ diFailed' = IF propOk THEN << >> ELSE << "SetProperty" >>
                /\ hr' = "DI_OK"
                /\ g_HiddenWnd' = TRUE
                /\ pc' = "di_test"
                /\ UNCHANGED << out, loopRet, exitCode >>
           ELSE /\ diHeld' = SetupSteps[k].holds \ Range(SetupSteps[k].releases)
                /\ diAcquired' = SetupSteps[k].holds
                /\ diReleased' = SetupSteps[k].releases
                /\ diFailed' = (IF propOk THEN << >> ELSE << "SetProperty" >>)
                                  \o << SetupSteps[k].step >>
                /\ hr' = IF SetupSteps[k].step = "Acquire" THEN "E_FAIL" ELSE hr
                /\ g_HiddenWnd' = (g_HiddenWnd \/ k > 3)
                /\ out' = Append(out, Line("cerr", SetupSteps[k].msg))
                /\ loopRet' = SetupSteps[k].code
                /\ exitCode' = SetupSteps[k].code
                /\ pc' = "done"
    /\ UNCHANGED << xconn, diOk, diDevs, argv, handler, g_Running,
                    selectedIndex, devices, listed, hwDevices, hwListed,
                    pending, calls, userIndex, lastPacket, stPacket, quiet >>
    /\ UNCHANGED << wait, reacquires, stopWaits, stopLines, webVars >>

\* while (g_Running.load()); wait is declared in the loop body
DITest ==
    /\ pc = "di_test"
    /\ pc' = IF LoopTest(g_Running) THEN "di_wait" ELSE "di_exit"
    /\ reacquires' = 0
    /\ wait' = "none"
    /\ UNCHANGED << xconn, diOk, diDevs, argv, handler, g_Running,
                    g_HiddenWnd, selectedIndex, devices, listed, hwDevices,
                    hwListed, pending, out, calls, userIndex, lastPacket, stPacket, quiet,
                    diHeld, loopRet, exitCode >>
    /\ UNCHANGED << hr, diHist, stopWaits, stopLines, webVars >>

\* the results a DirectInput read can give
HResults == { "DI_OK", "DIERR_INPUTLOST", "DIERR_NOTACQUIRED", "E_FAIL" }

\* a faulty variant of StateLost: DIERR_NOTACQUIRED is not taken for it
StateLost_InputLostOnly(res) == res = "DIERR_INPUTLOST"

\* hr == DIERR_INPUTLOST || hr == DIERR_NOTACQUIRED
StateLost(res) == res = "DIERR_INPUTLOST" \/ res = "DIERR_NOTACQUIRED"

\* a faulty variant of FAILED: no result counts as a failure
FAILED_Never(res) == FALSE
\* FAILED(hr)
FAILED(res) == res # "DI_OK"

\* one more dev->Acquire() in the drain loop, which can go round without
\* end: the count stops at MaxReacquire there
Reacquire(n) == IF n < MaxReacquire THEN n + 1 ELSE n

\* WaitForSingleObject(hEvent, 100) and, for WAIT_TIMEOUT and WAIT_FAILED,
\* the branch taken on it
DIWait ==
    /\ pc = "di_wait"
    /\ stopWaits' = StopWait(stopWaits)
    /\ \E w \in { "WAIT_OBJECT_0", "WAIT_TIMEOUT", "WAIT_FAILED" } :
        /\ wait' = w
        /\ IF w = "WAIT_OBJECT_0"
           THEN /\ pc' = "di_drain"
                /\ UNCHANGED << out, diHeld, hr, reacquires >>
           ELSE IF w = "WAIT_TIMEOUT"
           THEN \E res \in HResults :
                /\ hr' = res
                /\ IF StateLost(res)
                   THEN /\ diHeld' = diHeld \cup { "acquired" }
                        /\ reacquires' = reacquires + 1
                        /\ pc' = "di_test"
                        /\ UNCHANGED out
                   ELSE IF FAILED(res)
                   THEN /\ out' = Append(out, DeviceDisconnected)
                        /\ pc' = "di_exit"
                        /\ UNCHANGED << diHeld, reacquires >>
                   ELSE /\ pc' = "di_test"
                        /\ UNCHANGED << out, diHeld, reacquires >>
           ELSE /\ out' = Append(out, WaitFailed)
                /\ pc' = "di_exit"
                /\ UNCHANGED << diHeld, hr, reacquires >>
    /\ UNCHANGED << xconn, diOk, diDevs, argv, handler, g_Running,
                    g_HiddenWnd, selectedIndex, devices, listed, hwDevices,
                    hwListed, pending, calls, userIndex, lastPacket, stPacket, quiet,
                    loopRet, exitCode >>
    /\ UNCHANGED << diHist, stopLines, webVars >>

\* one pass of the inner while (true): GetDeviceData; on "state lost"
\* Acquire and continue the inner loop, on a failure or no item leave it
DIDrain ==
    /\ pc = "di_drain"
    /\ \E res \in HResults, dwItems \in { 0, 1 } :
        /\ hr' = res
        /\ IF StateLost(res)
           THEN /\ diHeld' = diHeld \cup { "acquired" }
                /\ reacquires' = Reacquire(reacquires)
                /\ pc' = "di_drain"
           ELSE IF FAILED(res) \/ dwItems = 0
           THEN /\ pc' = "di_state"
                /\ UNCHANGED << diHeld, reacquires >>
           ELSE /\ pc' = "di_drain"
                /\ UNCHANGED << diHeld, reacquires >>
    /\ UNCHANGED << xconn, diOk, diDevs, argv, handler, g_Running,
                    g_HiddenWnd, selectedIndex, devices, listed, hwDevices,
                    hwListed, pending, out, calls, userIndex, lastPacket, stPacket, quiet,
                    loopRet, exitCode >>
    /\ UNCHANGED << wait, diHist, stopWaits, stopLines, webVars >>

\* GetDeviceState after the drain, and PrintDIState when it succeeded
DIState ==
    /\ pc = "di_state"
    /\ \E res \in HResults :
        /\ hr' = res
        /\ IF StateLost(res)
           THEN /\ diHeld' = diHeld \cup { "acquired" }
                /\ reacquires' = reacquires + 1
                /\ UNCHANGED out
           ELSE IF ~FAILED(res)
           THEN /\ MayPrint
                /\ out' = Append(out, DIStateLine)
                /\ UNCHANGED << diHeld, reacquires >>
           ELSE UNCHANGED << out, diHeld, reacquires >>
    /\ pc' = "di_test"
    /\ UNCHANGED << xconn, diOk, diDevs, argv, handler, g_Running,
                    g_HiddenWnd, selectedIndex, devices, listed, hwDevices,
                    hwListed, pending, calls, userIndex, lastPacket, stPacket, quiet,
                    loopRet, exitCode >>
    /\ stopLines' = LinesAfterStop(stopLines, out, out')
    /\ UNCHANGED << wait, diHist, stopWaits, webVars >>

\* what the code after the loop releases, in the order of its calls:
\* Unacquire, SetEventNotification(nullptr), CloseHandle, dev->Release,
\* di->Release
ExitReleases == << "acquired", "notification", "hEvent", "dev", "di" >>

\* after the loop: the five releases and return 0; then main returns rc
DIExit ==
    /\ pc = "di_exit"
    /\ diHeld' = diHeld \ Range(ExitReleases)
    /\ diReleased' = diReleased \o ExitReleases
    /\ loopRet' = 0
    /\ exitCode' = 0
    /\ pc' = "done"
    /\ UNCHANGED << xconn, diOk, diDevs, argv, handler, g_Running,
                    g_HiddenWnd, selectedIndex, devices, listed, hwDevices,
                    hwListed, pending, out, calls, userIndex, lastPacket, stPacket, quiet >>
    /\ UNCHANGED << hr, reacquires, wait, diFailed, diAcquired, stopWaits, stopLines, webVars >>

----------------------------------------------------------------------------
(* The browser build: joystick_web.cpp *)

\* the gamepad the browser reports in slot s while one is connected there;
\* the gamepad of slot 2 has neither axis nor button
PadAt(s) ==
    [id |-> << "Gamepad ", ToString(s) >>, mapping |-> "standard",
     numAxes |-> IF s = 2 THEN 0 ELSE 4,
     numButtons |-> IF s = 2 THEN 0 ELSE 16]

\* emscripten_get_gamepad_status(i, &e): the result, and e.connected
emscripten_get_gamepad_status(conn, i) ==
    IF i \in conn
    THEN [result |-> "EMSCRIPTEN_RESULT_SUCCESS", connected |-> TRUE]
    ELSE [result |-> "EMSCRIPTEN_RESULT_NO_DATA", connected |-> FALSE]

\* the GamepadInfo UpdateGamepadList builds for slot i
GamepadInfo(i) ==
    [index |-> i, id |-> PadAt(i).id, mapping |-> PadAt(i).mapping,
     connected |-> TRUE, numButtons |-> PadAt(i).numButtons,
     numAxes |-> PadAt(i).numAxes]

\* for (int i = 0; i < numGamepads; ++i) of UpdateGamepadList
RECURSIVE GamepadScan(_, _, _, _)
GamepadScan(conn, i, numGamepads, list) ==
    IF i >= numGamepads THEN list
    ELSE LET st == emscripten_get_gamepad_status(conn, i)
         IN  GamepadScan(conn, i + 1, numGamepads,
                IF st.result = "EMSCRIPTEN_RESULT_SUCCESS" /\ st.connected
                THEN Append(list, GamepadInfo(i))
                ELSE list)

\* UpdateGamepadList(): g_gamepads after the call; numGamepads is what
\* emscripten_sample_gamepad_data() returned
UpdateGamepadList(conn, numGamepads) == GamepadScan(conn, 0, numGamepads, << >>)

\* GetGamepadState(index): axes and buttons stand for the sizes of the two
\* vectors; timestamp is not set when the status is not a connected gamepad
GetGamepadState(conn, ts, index) ==
    LET st == emscripten_get_gamepad_status(conn, index)
    IN  IF st.result = "EMSCRIPTEN_RESULT_SUCCESS" /\ st.connected
        THEN [index |-> index, timestamp |-> ts[index],
              axes |-> PadAt(index).numAxes, buttons |-> PadAt(index).numButtons]
        ELSE [index |-> index, timestamp |-> 0, axes |-> 0, buttons |-> 0]

\* FormatGamepadState(state): "Gamepad <index>: AXES: .. | BUTTONS: .."; n
\* stands for the axis and button values, which change with the timestamp
FormatGamepadState(state) ==
    [ch |-> "cout", text |-> "Gamepad",
     dev |-> [NoShown EXCEPT !.index = state.index], n |-> state.timestamp]

\* "  [index] id (mapping) Buttons: .. Axes: .."
GamepadLine(g) ==
    [ch |-> "cout", text |-> "gamepad",
     dev |-> [NoShown EXCEPT !.index = g.index, !.name = g.id], n |-> 0]

AvailableGamepads == Line("cout", "Available gamepads:")
NoGamepads == Line("cout", "No gamepads detected. Make sure a gamepad is connected and press any button on it.")
InvalidGamepadIndex(i) == [Line("cout", "Invalid gamepad index: ") EXCEPT !.n = i]
StartingToStream(i, g) ==
    [ch |-> "cout", text |-> "Starting to stream input from gamepad ",
     dev |-> [NoShown EXCEPT !.name = g.id], n |-> i]
PressEsc == Line("cout", "Press ESC or call StopStreaming() to stop.")
StoppedStreaming == Line("cout", "Stopped streaming gamepad input.")
ModuleInitialized == Line("cout", "Joystick Web Module initialized. Use JavaScript interface to interact.")

Call(fn, arg, ret, printed) ==
    [fn |-> fn, arg |-> arg, ret |-> ret, printed |-> printed]
NoFrame == [slot |-> NoIndex, connected |-> FALSE, valid |-> FALSE, timestamp |-> 0]
NoAnnounced == [index |-> NoIndex, id |-> << >>]

\* main() of the browser build
WebMain ==
    /\ pc = "web_main"
    /\ pc' = "web"
    /\ lastCall' = Call("main", NoIndex, 0, << ModuleInitialized >>)
    /\ UNCHANGED << g_gamepads, g_streaming, g_selectedGamepad, gpConnected,
                    gpTimestamp, sampled, gpChanges, lastFrame, prevFrame, frames,
                    announced >>
    /\ UNCHANGED cliVars

\* ListGamepads()
ListGamepads ==
    /\ pc = "web"
    /\ LET list == UpdateGamepadList(gpConnected, sampled)
       IN  /\ g_gamepads' = list
           /\ lastCall' = Call("ListGamepads", NoIndex, Len(list),
                    << AvailableGamepads >>
                    \o [k \in 1..Len(list) |-> GamepadLine(list[k])]
                    \o (IF list = << >> THEN << NoGamepads >> ELSE << >>))
    /\ UNCHANGED << pc, g_streaming, g_selectedGamepad, gpConnected,
                    gpTimestamp, sampled, gpChanges, lastFrame, prevFrame, frames,
                    announced >>
    /\ UNCHANGED cliVars

\* a faulty variant of StreamingAfterInvalid: a refused call ends the stream
StreamingAfterInvalid_Cleared(streaming) == FALSE
\* g_streaming after StartStreaming refused the index: the function returns
\* before it assigns anything
StreamingAfterInvalid(streaming) == streaming

\* StartStreaming(gamepadIndex)
StartStreaming(gamepadIndex) ==
    /\ pc = "web"
    /\ LET list == UpdateGamepadList(gpConnected, sampled)
       IN  /\ g_gamepads' = list
           /\ IF gamepadIndex < 0 \/ gamepadIndex >= Len(list)
              THEN /\ lastCall' = Call("StartStreaming", gamepadIndex, 0,
                                       << InvalidGamepadIndex(gamepadIndex) >>)
                   /\ g_streaming' = StreamingAfterInvalid(g_streaming)
                   /\ UNCHANGED << g_selectedGamepad, lastFrame,
                                   prevFrame, frames, announced >>
              ELSE /\ g_selectedGamepad' = gamepadIndex
                   /\ g_streaming' = TRUE
                   /\ lastCall' = Call("StartStreaming", gamepadIndex, 1,
                            << StartingToStream(gamepadIndex, list[gamepadIndex + 1]),
                               PressEsc >>)
                   /\ announced' = [index |-> list[gamepadIndex + 1].index,
                                    id |-> list[gamepadIndex + 1].id]
                   /\ lastFrame' = NoFrame
                   /\ prevFrame' = NoFrame
                   /\ frames' = 0
    /\ UNCHANGED << pc, gpConnected, gpTimestamp, sampled, gpChanges >>
    /\ UNCHANGED cliVars

\* a faulty variant of StoppedSelection: the selection is kept
StoppedSelection_Kept(selected) == selected
\* what StopStreaming stores into g_selectedGamepad: g_selectedGamepad = -1
StoppedSelection(selected) == -1

\* StopStreaming()
StopStreaming ==
    /\ pc = "web"
    /\ g_streaming' = FALSE
    /\ g_selectedGamepad' = StoppedSelection(g_selectedGamepad)
    /\ lastCall' = Call("StopStreaming", NoIndex, NoIndex, << StoppedStreaming >>)
    /\ announced' = NoAnnounced
    /\ lastFrame' = NoFrame
    /\ prevFrame' = NoFrame
    /\ frames' = 0
    /\ UNCHANGED << pc, g_gamepads, gpConnected, gpTimestamp, sampled, gpChanges >>
    /\ UNCHANGED cliVars

\* a faulty variant of HasValidData: a state without axes counts as valid
HasValidData_Always(state) == TRUE

\* !state.axes.empty() || !state.buttons.empty()
HasValidData(state) == state.axes > 0 \/ state.buttons > 0

\* UpdateGamepadState(), called by the page once per animation frame
UpdateGamepadState ==
    /\ pc = "web"
    /\ IF ~g_streaming \/ g_selectedGamepad < 0
       THEN /\ lastCall' = Call("UpdateGamepadState", NoIndex, NoIndex, << >>)
            /\ UNCHANGED << lastFrame, prevFrame, frames >>
       ELSE LET state == GetGamepadState(gpConnected, gpTimestamp, g_selectedGamepad)
            IN  /\ frames < MaxFrames
                /\ frames' = frames + 1
                /\ prevFrame' = lastFrame
                /\ lastFrame' = [slot |-> state.index,
                                 connected |-> emscripten_get_gamepad_status(
                                     gpConnected, g_selectedGamepad).connected,
                                 valid |-> HasValidData(state),
                                 timestamp |-> state.timestamp]
                /\ lastCall' = Call("UpdateGamepadState", NoIndex, NoIndex,
                        IF HasValidData(state)
                        THEN << FormatGamepadState(state) >> ELSE << >>)
    /\ UNCHANGED << pc, g_gamepads, g_streaming, g_selectedGamepad,
                    gpConnected, gpTimestamp, sampled, gpChanges, announced >>
    /\ UNCHANGED cliVars

\* IsStreaming()
IsStreaming ==
    /\ pc = "web"
    /\ lastCall' = Call("IsStreaming", NoIndex, IF g_streaming THEN 1 ELSE 0, << >>)
    /\ UNCHANGED << pc, g_gamepads, g_streaming, g_selectedGamepad,
                    gpConnected, gpTimestamp, sampled, gpChanges, lastFrame, prevFrame,
                    frames, announced >>
    /\ UNCHANGED cliVars

\* GetSelectedGamepad()
GetSelectedGamepad ==
    /\ pc = "web"
    /\ lastCall' = Call("GetSelectedGamepad", NoIndex, g_selectedGamepad, << >>)
    /\ UNCHANGED << pc, g_gamepads, g_streaming, g_selectedGamepad,
                    gpConnected, gpTimestamp, sampled, gpChanges, lastFrame, prevFrame,
                    frames, announced >>
    /\ UNCHANGED cliVars

\* a gamepad is connected to, or disconnected from, slot s of the browser
GamepadChange(s) ==
    /\ pc = "web"
    /\ gpChanges < MaxChanges
    /\ gpChanges' = gpChanges + 1
    /\ gpConnected' = IF s \in gpConnected THEN gpConnected \ { s }
                                           ELSE gpConnected \cup { s }
    /\ gpTimestamp' = [gpTimestamp EXCEPT ![s] = 0]
    /\ UNCHANGED << pc, g_gamepads, g_streaming, g_selectedGamepad, sampled,
                    lastCall, lastFrame, prevFrame, frames, announced >>
    /\ UNCHANGED cliVars

\* the user moves an axis or a button of the gamepad in slot s; only the
\* slot UpdateGamepadState reads is followed, no other timestamp is read
GamepadInput(s) ==
    /\ pc = "web"
    /\ g_streaming
    /\ s = g_selectedGamepad
    /\ s \in gpConnected
    /\ gpTimestamp[s] < MaxStamp
    /\ gpTimestamp' = [gpTimestamp EXCEPT ![s] = @ + 1]
    /\ UNCHANGED << pc, g_gamepads, g_streaming, g_selectedGamepad,
                    gpConnected, sampled, gpChanges, lastCall, lastFrame, prevFrame,
                    frames, announced >>
    /\ UNCHANGED cliVars

----------------------------------------------------------------------------
(* EnumerateDevices called twice in a row, as main and PrintUsageAndList do *)

CallEnumerateDevices ==
    /\ pc = "call1"
    /\ devices' = EnumerateDevices(xconn, diOk, diDevs)
    /\ hwDevices' = << Hardware >>
    /\ pc' = "call2"
    /\ UNCHANGED << xconn, diOk, diDevs, argv, handler, g_Running,
                    g_HiddenWnd, selectedIndex, listed, hwListed, pending,
                    out, calls, userIndex, lastPacket, stPacket, quiet, diHeld, loopRet,
                    exitCode >>
    /\ UNCHANGED << hr, wait, reacquires, diHist, stopWaits, stopLines, webVars >>

CallEnumerateDevicesAgain ==
    /\ pc = "call2"
    /\ listed' = EnumerateDevices(xconn, diOk, diDevs)
    /\ hwListed' = << Hardware >>
    /\ pc' = "called"
    /\ UNCHANGED << xconn, diOk, diDevs, argv, handler, g_Running,
                    g_HiddenWnd, selectedIndex, devices, hwDevices, pending,
                    out, calls, userIndex, lastPacket, stPacket, quiet, diHeld, loopRet,
                    exitCode >>
    /\ UNCHANGED << hr, wait, reacquires, diHist, stopWaits, stopLines, webVars >>

----------------------------------------------------------------------------
(* Specifications *)

Next ==
    \/ MainArgs
    \/ MainSelect
    \/ PrintUsageAndList
    \/ XInputTest
    \/ XInputRead
    \/ XInputSleep
    \/ DISetup
    \/ DITest
    \/ DIWait
    \/ DIDrain
    \/ DIState
    \/ DIExit
    \/ \E ctrlType \in CtrlTypes : ConsoleCtrlHandler(ctrlType)
    \/ \E i \in Slots : HardwareChange(i)
    \/ ProviderChange

Spec == Init /\ [][Next]_vars

NextEnum ==
    \/ CallEnumerateDevices
    \/ CallEnumerateDevicesAgain
    \/ \E i \in Slots : HardwareChange(i)
    \/ ProviderChange

SpecEnum == InitEnum /\ [][NextEnum]_vars

\* the page calls the exported functions in any order, with any argument
NextWeb ==
    \/ WebMain
    \/ ListGamepads
    \/ \E gamepadIndex \in -1..MaxPads : StartStreaming(gamepadIndex)
    \/ StopStreaming
    \/ UpdateGamepadState
    \/ IsStreaming
    \/ GetSelectedGamepad
    \/ \E s \in PadSlots : GamepadChange(s)
    \/ \E s \in PadSlots : GamepadInput(s)

SpecWeb == InitWeb /\ [][NextWeb]_vars

\* the steps of the main thread, which runs until main returns: the thread
\* is scheduled again and again, and every call it makes returns
MainThread ==
    \/ MainArgs
    \/ MainSelect
    \/ PrintUsageAndList
    \/ XInputTest
    \/ XInputRead
    \/ XInputSleep
    \/ DISetup
    \/ DITest
    \/ DIWait
    \/ DIDrain
    \/ DIState
    \/ DIExit

\* the program with a main thread that keeps running; what the devices
\* answer, and when, is left to the environment
SpecLive == InitLive /\ [][Next]_vars /\ WF_vars(MainThread)

----------------------------------------------------------------------------
(* Properties of the catalog *)

\* pat occurs in s as a substring
Contains(s, pat) ==
    \E i \in 1..(Len(s) - Len(pat) + 1) :
        \A j \in 1..Len(pat) : s[i + j - 1] = pat[j]

\* the lower-cased name contains "xinput", "(xbox" or "ig_"
ExcludedByName(name) ==
    LET folded == [i \in 1..Len(name) |-> towlower(name[i])]
    IN  Contains(folded, L_xinput) \/ Contains(folded, L_xbox) \/ Contains(folded, L_ig)

\* the catalogs EnumerateDevices has returned, each with the hardware it saw
Catalogs ==
    (IF hwDevices # << >> THEN { << devices, hwDevices[1] >> } ELSE {})
    \cup (IF hwListed # << >> THEN { << listed, hwListed[1] >> } ELSE {})

\* the DirectInput devices the provider reported to the callback
Reported(hw) == IF hw.diOk THEN hw.diDevs ELSE << >>

Survivors(hw) ==
    { j \in 1..Len(Reported(hw)) : ~ExcludedByName(Reported(hw)[j].name) }

\* entry k of cat is the descriptor of reported device j
Describes(cat, k, inst) ==
    /\ cat[k].kind = "DirectInput"
    /\ cat[k].diGuid = inst.guid
    /\ cat[k].name = inst.name

\* C1: in every catalog EnumerateDevices returns, entry k has index k, the
\* indices are exactly 0..N-1, and N is the number of connected XInput slots
\* plus the number of reported DirectInput devices the name filter keeps.
C1_IndicesContiguous ==
    \A c \in Catalogs :
        LET cat == c[1]
            hw  == c[2]
            N   == Len(cat)
        IN  /\ \A k \in 1..N : cat[k].index = k - 1
            /\ { cat[k].index : k \in 1..N } = 0..(N - 1)
            /\ \A a, b \in 1..N : cat[a].index = cat[b].index => a = b
            /\ N = Cardinality(hw.xconn) + Cardinality(Survivors(hw))

\* a catalog of both kinds, taken while a filtered device was attached
C1_Witness ==
    /\ pc = "called"
    /\ Len(listed) >= 3
    /\ \E k \in 1..Len(listed) : listed[k].kind = "XInput"
    /\ \E k \in 1..Len(listed) : listed[k].kind = "DirectInput"
    /\ Cardinality(Survivors(hwListed[1])) < Len(hwListed[1].diDevs)

\* C2: a reported DirectInput device is left out of the catalog if and only
\* if its lower-cased product name contains "xinput", "(xbox" or "ig_"; every
\* other reported device, one with an empty name too, has its descriptor in
\* the catalog.
C2_NameFilter ==
    \A c \in Catalogs :
        LET cat == c[1]
            rep == Reported(c[2])
        IN  \A j \in 1..Len(rep) :
                ExcludedByName(rep[j].name)
                    <=> ~(\E k \in 1..Len(cat) : Describes(cat, k, rep[j]))

\* a catalog that keeps a device with an empty name and drops another
C2_Witness ==
    /\ pc = "called"
    /\ hwListed[1].diOk
    /\ \E j \in 1..Len(diDevs) :
        /\ diDevs[j].name = << >>
        /\ \E k \in 1..Len(listed) : Describes(listed, k, diDevs[j])
    /\ \E j \in 1..Len(diDevs) :
        /\ ExcludedByName(diDevs[j].name)
        /\ ~(\E k \in 1..Len(listed) : Describes(listed, k, diDevs[j]))

\* the place of the device with this guid in the provider's enumeration
PlaceOf(hw, guid) == CHOOSE j \in 1..Len(hw.diDevs) : hw.diDevs[j].guid = guid

\* C3: in every catalog the XInput descriptors come before the DirectInput
\* descriptors, the XInput descriptors are in increasing slot order, the
\* DirectInput descriptors are in the provider's enumeration order, and two
\* enumerations of the same hardware return the same catalog.
C3_OrderDeterministic ==
    /\ \A c \in Catalogs :
        LET cat == c[1]
            hw  == c[2]
        IN  \A a, b \in 1..Len(cat) :
                a < b =>
                    /\ ~(cat[a].kind = "DirectInput" /\ cat[b].kind = "XInput")
                    /\ (cat[a].kind = "XInput" /\ cat[b].kind = "XInput")
                         => cat[a].xinputUser < cat[b].xinputUser
                    /\ (cat[a].kind = "DirectInput" /\ cat[b].kind = "DirectInput")
                         => PlaceOf(hw, cat[a].diGuid) < PlaceOf(hw, cat[b].diGuid)
    /\ (hwDevices # << >> /\ hwListed # << >> /\ hwDevices = hwListed)
            => devices = listed

\* two enumerations of unchanged hardware with two devices of each kind
C3_Witness ==
    /\ pc = "called"
    /\ hwDevices = hwListed
    /\ Cardinality({ k \in 1..Len(listed) : listed[k].kind = "XInput" }) >= 2
    /\ Cardinality({ k \in 1..Len(listed) : listed[k].kind = "DirectInput" }) >= 2

\* C4: when DirectInput8Create fails, EnumerateDevices still returns: the
\* catalog is exactly the connected XInput slots, indexed 0..N-1, and has no
\* DirectInput entry.
C4_ProviderFailure ==
    \A c \in Catalogs :
        LET cat == c[1]
            hw  == c[2]
        IN  ~hw.diOk =>
                /\ Len(cat) = Cardinality(hw.xconn)
                /\ \A k \in 1..Len(cat) :
                    /\ cat[k].kind = "XInput"
                    /\ cat[k].index = k - 1
                    /\ cat[k].xinputUser \in hw.xconn
                /\ \A u \in hw.xconn :
                    \E k \in 1..Len(cat) : cat[k].xinputUser = u

\* DirectInput failed with a device attached that the filter would keep, and
\* the catalog holds the two connected XInput slots
C4_Witness ==
    /\ pc = "called"
    /\ ~hwListed[1].diOk
    /\ \E j \in 1..Len(diDevs) : ~ExcludedByName(diDevs[j].name)
    /\ Len(listed) = 2
    /\ Cardinality(xconn) = 2

----------------------------------------------------------------------------
(* Properties of main *)

\* s is an optional sign followed by decimal digits, and nothing else
IsDecimalInteger(s) ==
    LET digits == IF Len(s) >= 1 /\ s[1] \in { "+", "-" } THEN Tail(s) ELSE s
    IN  Len(digits) >= 1 /\ \A i \in 1..Len(digits) : IsDigit(digits[i])

\* the magnitude of a decimal integer, as far as it matters for a catalog:
\* every value above 1000 counts as 1000
RECURSIVE CappedMagnitude(_, _, _)
CappedMagnitude(s, i, acc) ==
    IF i > Len(s) THEN acc
    ELSE IF ~IsDigit(s[i]) THEN CappedMagnitude(s, i + 1, acc)
    ELSE LET v == acc * 10 + DigitVal(s[i])
         IN  CappedMagnitude(s, i + 1, IF v > 1000 THEN 1000 ELSE v)

Magnitude(s) == CappedMagnitude(s, 1, 0)
IsNegative(s) == s[1] = "-" /\ Magnitude(s) > 0

\* the integer s is a valid index into a catalog of n entries
IndexInRange(s, n) == ~IsNegative(s) /\ Magnitude(s) < n

\* o is the usage text followed by the listing of the catalog cat
IsListing(o, cat) ==
    /\ Len(o) >= 3
    /\ o[1] = Line("cout", "Usage: JoystickInput <deviceIndex>")
    /\ o[2] = Line("cout", "No argument: lists available devices with their integer index.")
    /\ IF Len(cat) = 0
       THEN /\ Len(o) = 3
            /\ o[3] = Line("cout", "No game controllers detected.")
       ELSE /\ Len(o) = 3 + Len(cat)
            /\ o[3] = Line("cout", "Available devices:")
            /\ \A k \in 1..Len(cat) :
                /\ o[3 + k].ch = "cout"
                /\ o[3 + k].text = "device"
                /\ o[3 + k].dev.index = k - 1
                /\ o[3 + k].dev.name = cat[k].name
                /\ o[3 + k].dev.label =
                      (IF cat[k].kind = "XInput" THEN "XInput   " ELSE "DirectInp")

InStreamLoop ==
    pc \in { "xi_test", "xi_read", "xi_sleep",
             "di_setup", "di_test", "di_wait", "di_drain", "di_state", "di_exit" }

\* C5: with no argument the program prints the usage text and the catalog it
\* enumerates ("No game controllers detected." for an empty one), never
\* enters a streaming loop, and exits with code 0.
C5_NoArguments ==
    Len(argv) = 0 =>
        /\ calls = << >>
        /\ ~InStreamLoop
        /\ pc \in { "main", "list", "done" }
        /\ pc = "done" =>
            /\ exitCode = 0
            /\ hwListed # << >>
            /\ listed = EnumerateDevices(hwListed[1].xconn, hwListed[1].diOk,
                                         hwListed[1].diDevs)
            /\ IsListing(out, listed)

\* the program has exited after listing nothing but the empty-catalog message
C5_Witness ==
    /\ Len(argv) = 0
    /\ pc = "done"
    /\ exitCode = 0
    /\ listed = << >>
    /\ Len(out) = 3

\* C6 (as claimed): with one argument that is not entirely a decimal
\* integer the program prints the invalid-argument message and the listing,
\* exits with code 1 and never enters a streaming loop.
C6_NonIntegerRejected ==
    (Len(argv) = 1 /\ ~IsDecimalInteger(argv[1])) =>
        /\ calls = << >>
        /\ ~InStreamLoop
        /\ pc = "done" =>
            /\ exitCode = 1
            /\ out # << >>
            /\ out[1] = Line("cerr", "Invalid argument. Must be an integer device index.")
            /\ IsListing(Tail(out), listed)

\* the size of the catalog the index is tested against; the catalog listed
\* when main did not get as far as enumerating
CurrentN == IF hwDevices # << >> THEN Len(devices) ELSE Len(listed)

\* C7 (as claimed): with one integer argument i, i < 0 or i >= N for the
\* current catalog of N entries, the program prints the out-of-range
\* message and the listing, exits with code 1 and never enters a streaming
\* loop.
C7_OutOfRangeRejected ==
    (Len(argv) = 1 /\ IsDecimalInteger(argv[1])) =>
        /\ (hwDevices # << >> /\ ~IndexInRange(argv[1], Len(devices))) =>
            /\ calls = << >>
            /\ ~InStreamLoop
        /\ (pc = "done" /\ ~IndexInRange(argv[1], CurrentN)) =>
            /\ calls = << >>
            /\ exitCode = 1
            /\ out # << >>
            /\ out[1] = Line("cerr", "Device index out of range.")
            /\ IsListing(Tail(out), listed)

\* C8: with a valid index i the program enters a streaming loop exactly
\* once, for entry i of the catalog: RunXInputReader with its slot when it
\* is an XInput device, RunDirectInputReader with its instance GUID
\* otherwise; and the exit code is what that loop returned.
C8_ValidIndexStreams ==
    (/\ Len(argv) >= 1
     /\ IsDecimalInteger(argv[1])
     /\ hwDevices # << >>
     /\ IndexInRange(argv[1], Len(devices))) =>
        LET i == Magnitude(argv[1])
            d == devices[i + 1]
        IN  /\ d.index = i
            /\ Len(calls) = 1
            /\ IF d.kind = "XInput"
               THEN /\ calls[1] = [mode |-> "XInput", user |-> d.xinputUser,
                                   guid |-> GuidNull]
                    /\ pc \in { "xi_test", "xi_read", "xi_sleep", "done" }
               ELSE /\ calls[1] = [mode |-> "DirectInput", user |-> NoIndex,
                                   guid |-> d.diGuid]
                    /\ pc \in { "di_setup", "di_test", "di_wait", "di_drain",
                                "di_state", "di_exit", "done" }
            /\ pc = "done" => (loopRet # NoCode /\ exitCode = loopRet)
            /\ pc # "done" => (loopRet = NoCode /\ exitCode = NoCode)

\* the DirectInput loop ran for an entry that is not the first of a catalog
\* with XInput entries, and the program exited with what it returned
C8_Witness ==
    /\ pc = "done"
    /\ Len(argv) >= 1
    /\ IsDecimalInteger(argv[1])
    /\ Len(calls) = 1
    /\ calls[1].mode = "DirectInput"
    /\ selectedIndex >= 2
    /\ devices[1].kind = "XInput"
    /\ Len(StateLines(out)) >= 1
    /\ exitCode = 0

----------------------------------------------------------------------------
(* Properties of RunXInputReader *)

\* C9: a successful read whose packet number equals lastPacket prints
\* nothing and leaves lastPacket alone; one whose packet number differs
\* prints exactly one state line, that of the state read, and lastPacket
\* becomes its packet number.
C9_PrintOnChange ==
    [][ (pc = "xi_read" /\ pc' = "xi_sleep") =>
            /\ stPacket' = lastPacket =>
                (out' = out /\ lastPacket' = lastPacket)
            /\ stPacket' # lastPacket =>
                (/\ out' = Append(out, [ch |-> "cout", text |-> "XInputState",
                                        dev |-> NoShown, n |-> stPacket'])
                 /\ lastPacket' = stPacket') ]_vars

\* after a line was printed for a changed packet, a read of the same
\* packet printed nothing
C9_Witness ==
    /\ pc = "xi_sleep"
    /\ quiet
    /\ Len(StateLines(out)) >= 1
    /\ stPacket = lastPacket

\* C10: RunXInputReader returns in two ways only: 0, from the loop test
\* that loaded g_Running as false, printing nothing; and 1, from a read that
\* failed, after printing "Controller disconnected." and no state line.
\* Every read that fails ends the loop this way, and a loop test that loads
\* true does not return.
C10_TerminalOutcomes ==
    [][ /\ (loopRet = NoCode /\ loopRet' # NoCode /\ calls # << >>
                /\ calls[1].mode = "XInput") =>
            \/ /\ loopRet' = 0
               /\ pc = "xi_test"
               /\ ~g_Running
               /\ out' = out
            \/ /\ loopRet' = 1
               /\ pc = "xi_read"
               /\ userIndex \notin xconn
               /\ out' = Append(out, Line("cout", "Controller disconnected."))
        /\ (pc = "xi_read" /\ pc' # pc /\ userIndex \notin xconn) =>
            (loopRet' = 1 /\ pc' = "done" /\ StateLines(out') = StateLines(out))
        /\ (pc = "xi_test" /\ pc' # pc) =>
            (IF g_Running THEN loopRet' = NoCode /\ pc' = "xi_read"
                          ELSE loopRet' = 0 /\ pc' = "done") ]_vars

\* the loop printed a state line and then returned 1 on a disconnect
C10_Witness ==
    /\ pc = "done"
    /\ calls # << >>
    /\ calls[1].mode = "XInput"
    /\ loopRet = 1
    /\ Len(StateLines(out)) >= 1
    /\ out[Len(out)] = ControllerDisconnected

----------------------------------------------------------------------------
(* Properties of cancellation *)

\* a streaming loop is running: one of its statements is the next to execute
LoopRunning ==
    pc \in { "xi_test", "xi_read", "xi_sleep",
             "di_test", "di_wait", "di_drain", "di_state" }

\* C11 (as claimed): once g_Running is false while a streaming loop runs,
\* the loop returns, after at most one further sleep (RunXInputReader) or
\* one further wait (RunDirectInputReader), whatever the device answers in
\* the meantime; it returns 0 and holds no device resource any more.
C11_StopEndsLoop ==
    /\ [](stopWaits <= 1)
    /\ []((LoopRunning /\ ~g_Running) =>
            <>(pc = "done" /\ loopRet = 0 /\ exitCode = 0 /\ diHeld = {}))

----------------------------------------------------------------------------
(* Properties of RunDirectInputReader *)

\* the results that mean "state lost"
LostResults == { "DIERR_INPUTLOST", "DIERR_NOTACQUIRED" }

\* RunDirectInputReader was called
DirectInputRun == calls # << >> /\ calls[1].mode = "DirectInput"

\* C12: when GetDeviceState after a signalled wait answers "state lost"
\* (DIERR_INPUTLOST or DIERR_NOTACQUIRED), the loop calls Acquire exactly
\* once, prints no state line in that iteration, does not return, and goes
\* on to the next loop test.
C12_StateReadLost ==
    [][ (pc = "di_state" /\ pc' # pc /\ hr' \in LostResults) =>
            /\ wait = "WAIT_OBJECT_0"
            /\ reacquires' = reacquires + 1
            /\ out' = out
            /\ pc' = "di_test"
            /\ loopRet' = NoCode
            /\ exitCode' = NoCode
            /\ diHeld' = diHeld
            /\ diReleased' = << >> ]_vars

\* the loop printed a state line and, in a later iteration, lost the state
\* at the full-state read and reacquired once
C12_Witness ==
    /\ pc = "di_test"
    /\ wait = "WAIT_OBJECT_0"
    /\ hr = "DIERR_NOTACQUIRED"
    /\ reacquires = 1
    /\ Len(StateLines(out)) >= 1
    /\ loopRet = NoCode

\* C13 (as claimed): when GetDeviceData in the drain answers "state lost",
\* the loop calls Acquire once and continues with the next loop test,
\* printing no state line in that iteration; no iteration calls Acquire more
\* than once.
C13_DrainLost ==
    [][ /\ (pc = "di_drain" /\ reacquires' > reacquires) =>
                (pc' = "di_test" /\ out' = out)
        /\ reacquires' <= 1 ]_vars

\* C14 (as claimed): when GetDeviceState on a wait timeout fails with
\* something other than "state lost", the loop prints the disconnect notice,
\* ends, releases the device, and RunDirectInputReader returns a non-zero
\* code.
C14_TimeoutReadFails ==
    (/\ DirectInputRun
     /\ pc \in { "di_exit", "done" }
     /\ wait = "WAIT_TIMEOUT"
     /\ hr \notin (LostResults \cup { "DI_OK" })) =>
        /\ out[Len(out)] = Line("cout", "Device disconnected or error.")
        /\ pc = "done" =>
            /\ diHeld = {}
            /\ loopRet \notin { 0, NoCode }
            /\ exitCode = loopRet

\* C15 (as claimed): when WaitForSingleObject answers neither
\* WAIT_OBJECT_0 nor WAIT_TIMEOUT, the loop prints the wait-failure message
\* and ends; no read and no state line follow, and RunDirectInputReader
\* returns an error code, not 0.
C15_WaitFails ==
    [][ /\ (wait # "WAIT_FAILED" /\ wait' = "WAIT_FAILED") =>
            /\ out' = Append(out, Line("cerr", "WaitForSingleObject failed."))
            /\ pc' = "di_exit"
            /\ hr' = hr
        /\ wait = "WAIT_FAILED" =>
            /\ hr' = hr
            /\ out' = out
            /\ pc' \in { "di_exit", "done" }
        /\ (wait' = "WAIT_FAILED" /\ pc' = "done") =>
            /\ loopRet' \notin { 0, NoCode }
            /\ exitCode' = loopRet' ]_vars

\* the number of times resource r was released
ReleaseCount(r) == Cardinality({ i \in 1..Len(diReleased) : diReleased[i] = r })

\* C16: whenever RunDirectInputReader has returned (from a set-up failure,
\* the loop test, a detected disconnect or a failed wait), every resource it
\* obtained (DirectInput interface, device, event handle, event
\* notification, acquisition) was released exactly once, nothing it did not
\* obtain was released, and it holds nothing.
C16_ReleasedOnce ==
    (DirectInputRun /\ pc = "done") =>
        /\ diHeld = {}
        /\ \A r \in { "di", "dev", "hEvent", "notification", "acquired" } :
            ReleaseCount(r) = (IF r \in diAcquired THEN 1 ELSE 0)
        /\ \A i \in 1..Len(diReleased) : diReleased[i] \in diAcquired

\* SetEventNotification failed after the event handle was created, and the
\* handle, the device and the interface were released
C16_Witness ==
    /\ DirectInputRun
    /\ pc = "done"
    /\ loopRet = 8
    /\ diAcquired = { "di", "dev", "hEvent" }
    /\ diReleased = << "hEvent", "dev", "di" >>

\* C17 (as claimed): when a step of the set-up fails (DirectInput8Create,
\* CreateDevice, the helper window, SetDataFormat, SetCooperativeLevel,
\* SetProperty for the buffer size, CreateEvent, SetEventNotification,
\* Acquire), RunDirectInputReader prints a message on std::cerr, does not
\* enter the streaming loop, and returns a non-zero code that no other step
\* returns.
C17_SetupFailure ==
    (DirectInputRun /\ diFailed # << >>) =>
        /\ pc = "done"
        /\ out[Len(out)].ch = "cerr"
        /\ loopRet \notin { 0, NoCode }
        /\ exitCode = loopRet
        /\ StateLines(out) = << >>
        /\ \A k \in 1..Len(SetupSteps) :
            SetupSteps[k].code = loopRet => SetupSteps[k].step = diFailed[1]
        /\ \A a, b \in 1..Len(SetupSteps) :
            SetupSteps[a].code = SetupSteps[b].code => a = b

\* C18: g_Running is true when the process starts; a step that changes it
\* is a step of ConsoleCtrlHandler, which leaves the main thread where it
\* is, and it changes it to false; once false it is never true again.
C18_StopSignalMonotone ==
    [][ /\ pc = "main" => g_Running
        /\ ~g_Running => ~g_Running'
        /\ g_Running' # g_Running =>
            /\ handler
            /\ g_Running
            /\ UNCHANGED << pc, out, calls, loopRet, exitCode, lastPacket,
                            hr, wait, diHeld, diReleased >> ]_vars

\* the handler ran while a loop was streaming, and the loop, which had
\* printed a line, has not yet seen it
C18_Witness ==
    /\ ~g_Running
    /\ handler
    /\ pc \in { "xi_read", "di_drain" }
    /\ Len(StateLines(out)) >= 1

\* C23: an iteration of the DirectInput loop whose wait ends in WAIT_TIMEOUT
\* prints no state line, whatever GetDeviceState answers: on success nothing
\* is printed or changed and the loop goes to its next test; on "state lost"
\* Acquire is called exactly once, nothing is printed and the loop goes to
\* its next test; on any other failure, and only then, the loop ends.
C23_TimeoutNoStateLine ==
    [][ (pc = "di_wait" /\ wait' = "WAIT_TIMEOUT") =>
            /\ StateLines(out') = StateLines(out)
            /\ hr' \in HResults
            /\ hr' = "DI_OK" =>
                /\ out' = out
                /\ reacquires' = reacquires
                /\ diHeld' = diHeld
                /\ pc' = "di_test"
            /\ hr' \in LostResults =>
                /\ out' = out
                /\ reacquires' = reacquires + 1
                /\ pc' = "di_test"
            /\ hr' \notin (LostResults \cup { "DI_OK" }) =>
                /\ reacquires' = reacquires
                /\ pc' = "di_exit"
            /\ pc' \in { "di_test", "di_exit" }
            /\ loopRet' = NoCode ]_vars

\* the loop printed a state line, then a wait timed out, the read lost the
\* state and one Acquire followed; the loop is at its next test
C23_Witness ==
    /\ pc = "di_test"
    /\ wait = "WAIT_TIMEOUT"
    /\ hr \in LostResults
    /\ reacquires = 1
    /\ Len(StateLines(out)) = 1
    /\ loopRet = NoCode

\* C26: in both loops at most one state line is printed after
\* ConsoleCtrlHandler stored false into g_Running, wherever the store falls
\* between the steps of the loop; no line counts as printed after the stop
\* while g_Running is still true.
C26_OneLineAfterStop ==
    /\ stopLines <= 1
    /\ g_Running => stopLines = 0

\* the DirectInput loop printed a line, the handler stored false while the
\* loop was in its body, the loop printed one more line and returned
C26_Witness ==
    /\ DirectInputRun
    /\ pc = "done"
    /\ ~g_Running
    /\ stopLines = 1
    /\ Len(StateLines(out)) = 2
    /\ loopRet = 0

----------------------------------------------------------------------------
(* Properties of the browser build *)

\* the last exported call was an UpdateGamepadState that read the gamepad
FrameRead ==
    g_streaming /\ frames >= 1 /\ lastCall.fn = "UpdateGamepadState"

\* C19 (as claimed): while streaming, an UpdateGamepadState call prints at
\* most one line, and it prints none when the state it reads from the
\* selected gamepad is the state the previous call read (same slot, same
\* timestamp).
C19_FramePrintsOnChange ==
    FrameRead =>
        /\ Len(lastCall.printed) <= 1
        /\ (/\ frames >= 2
            /\ lastFrame.valid
            /\ prevFrame.valid
            /\ lastFrame.slot = prevFrame.slot
            /\ lastFrame.timestamp = prevFrame.timestamp) =>
                lastCall.printed = << >>

\* C20 (as claimed): after a StartStreaming(i) that returned 1, every
\* UpdateGamepadState reads the gamepad slot of entry i of the catalog, the
\* gamepad whose id StartStreaming printed, whichever slots are connected.
C20_StreamsAnnouncedDevice ==
    (g_streaming /\ frames >= 1) =>
        /\ announced.index # NoIndex
        /\ lastFrame.slot = announced.index

\* the gamepad lines of the last ListGamepads call, in the order printed
ListedLines ==
    SelectSeq(lastCall.printed, LAMBDA l : l.text = "gamepad")

\* C21 (as claimed): after ListGamepads, the k-th gamepad line printed
\* carries the index k - 1, so the printed indices are exactly 0 .. N-1 for
\* the returned count N, and each of them is below the catalog size, the
\* range StartStreaming accepts.
C21_ListedIndexIsPosition ==
    lastCall.fn = "ListGamepads" =>
        /\ Len(ListedLines) = lastCall.ret
        /\ \A k \in 1..Len(ListedLines) :
            /\ ListedLines[k].dev.index = k - 1
            /\ ListedLines[k].dev.index < Len(g_gamepads)

\* the last frame of the stream found the slot it reads disconnected
FrameDisconnected ==
    frames >= 1 /\ ~lastFrame.connected

\* C22 (as claimed): an UpdateGamepadState call that finds the selected
\* gamepad disconnected while streaming prints a disconnect notice and
\* clears g_streaming; afterwards IsStreaming returns 0 and a further
\* UpdateGamepadState prints nothing, until StartStreaming succeeds again.
C22_DisconnectEndsStream ==
    /\ (FrameDisconnected /\ lastCall.fn = "UpdateGamepadState") =>
            /\ ~g_streaming
            /\ frames = 1 \/ prevFrame.connected =>
                /\ Len(lastCall.printed) = 1
                /\ lastCall.printed[1].text # "Gamepad"
            /\ frames >= 2 /\ ~prevFrame.connected =>
                lastCall.printed = << >>
    /\ (FrameDisconnected /\ lastCall.fn = "IsStreaming") =>
            lastCall.ret = 0

\* C24: in every state of the browser build g_streaming is true exactly
\* when g_selectedGamepad >= 0, and g_selectedGamepad is -1 when it is
\* false; IsStreaming and GetSelectedGamepad return these values, and an
\* UpdateGamepadState call made while g_streaming is false prints nothing.
C24_StreamingIffSelected ==
    /\ g_streaming <=> g_selectedGamepad >= 0
    /\ ~g_streaming => g_selectedGamepad = -1
    /\ lastCall.fn = "IsStreaming" =>
        /\ lastCall.ret \in { 0, 1 }
        /\ lastCall.ret = 1 <=> g_selectedGamepad >= 0
    /\ lastCall.fn = "GetSelectedGamepad" =>
        /\ lastCall.ret = g_selectedGamepad
        /\ lastCall.ret >= 0 <=> g_streaming
    /\ (lastCall.fn = "UpdateGamepadState" /\ ~g_streaming) =>
        lastCall.printed = << >>

\* with a gamepad in the catalog and no stream, UpdateGamepadState was
\* called and printed nothing
C24_Witness ==
    /\ lastCall.fn = "UpdateGamepadState"
    /\ lastCall.printed = << >>
    /\ ~g_streaming
    /\ g_selectedGamepad = -1
    /\ g_gamepads # << >>
    /\ gpConnected # {}

\* C25: a StartStreaming(i) call with i < 0 or i >= the size of the catalog
\* it has just refreshed returns 0 and prints the invalid-index message; it
\* leaves g_streaming and g_selectedGamepad as they were, so a stream in
\* progress goes on reading the slot it read before.
C25_InvalidStartKeepsStream ==
    [][ (/\ lastCall'.fn = "StartStreaming"
         /\ lastCall'.arg < 0 \/ lastCall'.arg >= Len(g_gamepads')) =>
            /\ lastCall'.ret = 0
            /\ lastCall'.printed = << InvalidGamepadIndex(lastCall'.arg) >>
            /\ g_streaming' = g_streaming
            /\ g_selectedGamepad' = g_selectedGamepad
            /\ lastFrame' = lastFrame
            /\ frames' = frames
            /\ announced' = announced ]_vars

\* a stream that had read a frame from a connected gamepad was in progress
\* when StartStreaming refused an index; the stream is still on
C25_Witness ==
    /\ lastCall.fn = "StartStreaming"
    /\ lastCall.ret = 0
    /\ lastCall.arg >= Len(g_gamepads)
    /\ g_streaming
    /\ g_selectedGamepad = 0
    /\ frames >= 1
    /\ lastFrame.valid

====
